---- MODULE Spec2Model ----
(***************************************************************************)
(* Verification model of three independent leaves of the repository:       *)
(*   - readKibanaConfig   (src/unnamed/part_000)                           *)
(*   - useIsDarkTheme     (x-pack/.../ml/kibana_theme/src/hooks.ts)        *)
(*   - Chart              (unified_histogram/public/chart/chart.tsx)       *)
(* Each leaf has its own specification (SpecConfig, SpecTheme, SpecChart,  *)
(* SpecChartFair); the variables of the other leaves stay at their initial *)
(* values.                                                                 *)
(***************************************************************************)
EXTENDS Naturals, FiniteSets, Sequences, TLC

VARIABLES
    \* ---- readKibanaConfig ----
    devFile,        \* config/kibana.dev.yml on disk
    prodFile,       \* config/kibana.yml on disk
    env,            \* process.env (the three variables the loader reads)
    cfgOut,         \* outcome of the call: not called / returned / threw
    \* ---- useIsDarkTheme ----
    themeService,   \* the `theme` argument: absent, or a kind of theme service
    appliedTheme,   \* the theme currently applied (current value of theme$)
    hookState,      \* useObservable's useState value
    themePc,        \* "unmounted" | "rendered" | "subscribed" | "gone"
    themeRenderPending, \* a state update has scheduled a re-render
    returned,       \* value returned by the last render of the hook
    delivered,      \* notifications the subscription has delivered
    themeChanges,   \* theme changes so far (bounded)
    \* ---- Chart ----
    props,          \* props of the last render
    visContext,     \* useObservable(lensVisService.visContext$)
    suggestionContext, \* useObservable(lensVisService.currentSuggestionContext$)
    isSaveModalVisible,
    isFlyoutVisible,
    chartMounted,
    renderPending,  \* a setState has scheduled a re-render
    effectPending,  \* the committed render's effect has not run yet
    lastDeps,       \* dependency array of the last committed render
    out             \* what the last render produced

cfgVars == <<devFile, prodFile, env, cfgOut>>
themeVars == <<themeService, appliedTheme, hookState, themePc, themeRenderPending,
               returned, delivered, themeChanges>>
chartVars == <<props, visContext, suggestionContext, isSaveModalVisible,
               isFlyoutVisible, chartMounted, renderPending, effectPending,
               lastDeps, out>>
vars == <<cfgVars, themeVars, chartVars>>

\* JavaScript's undefined, for string-valued slots.
undefined == "<undefined>"

(***************************************************************************)
(*                           readKibanaConfig                              *)
(***************************************************************************)

kibanaDevConfig == "config/kibana.dev.yml"
kibanaConfig == "config/kibana.yml"

\* The object literal's own keys, before the two spreads.
Defaults ==
    [k \in {"xpack.apm.indices.transaction", "xpack.apm.indices.metric",
            "xpack.apm.indices.error", "xpack.apm.indices.span",
            "xpack.apm.indices.onboarding", "elasticsearch.hosts"} |->
        CASE k = "xpack.apm.indices.transaction" -> "traces-apm*,apm-*,traces-*.otel-*"
          [] k = "xpack.apm.indices.metric" -> "metrics-apm*,apm-*,metrics-*.otel-*"
          [] k = "xpack.apm.indices.error" -> "logs-apm*,apm-*,logs-*.otel-*"
          [] k = "xpack.apm.indices.span" -> "traces-apm*,apm-*,traces-*.otel-*"
          [] k = "xpack.apm.indices.onboarding" -> "apm-*"
          [] k = "elasticsearch.hosts" -> "http://localhost:9200"]

\* Keys a YAML document of the model may set: a defaulted APM key, the three
\* keys the environment can override, and a key the loader knows nothing of.
FileKeys == {"xpack.apm.indices.transaction", "elasticsearch.hosts",
             "elasticsearch.username", "elasticsearch.password", "server.port"}

EmptyObject == [k \in {} |-> ""]

\* A document that sets the keys of S, each to the value v.
Documents(v) == UNION {[S -> {v}] : S \in SUBSET FileKeys}

\* A file on disk: absent, not parseable, empty, or a YAML mapping.
FileStates(v) ==
    {[kind |-> "absent", doc |-> EmptyObject],
     [kind |-> "malformed", doc |-> EmptyObject],
     [kind |-> "empty", doc |-> EmptyObject]}
    \cup {[kind |-> "mapping", doc |-> d] : d \in Documents(v)}

DevValue == "value-from-kibana.dev.yml"
ProdValue == "value-from-kibana.yml"

\* process.env.X: undefined when unset, else a string (possibly empty).
EnvStates ==
    [ELASTICSEARCH_USERNAME : {undefined, "", "env-user"},
     ELASTICSEARCH_PASSWORD : {undefined, "", "env-pass"},
     ELASTICSEARCH_HOST : {undefined, "", "http://env-host:9200"}]

existsSync(file) == file.kind # "absent"

\* lodash identity as a predicate: JavaScript truthiness of a string slot.
identity(v) == v # undefined /\ v # ""

\* lodash pickBy(object, predicate) with predicate = identity.
pickBy(object) ==
    LET keep == {k \in DOMAIN object : identity(object[k])}
    IN [k \in keep |-> object[k]]

\* { ...a, ...b }
Spread(a, b) ==
    [k \in DOMAIN a \cup DOMAIN b |-> IF k \in DOMAIN b THEN b[k] ELSE a[k]]

\* fs.existsSync(kibanaDevConfig) ? kibanaDevConfig : kibanaConfig
ConfigPathAlwaysProd(dev) == kibanaConfig
ConfigPath(dev) == IF existsSync(dev) THEN kibanaDevConfig ELSE kibanaConfig

FileAt(path, dev, prod) == IF path = kibanaDevConfig THEN dev ELSE prod

\* fs.readFileSync(path, 'utf8') followed by yaml.load(...): the error each
\* raises, or "none".
LoadErrorSwallowed(file) == "none"
LoadError(file) ==
    CASE file.kind = "absent" -> "ENOENT"
      [] file.kind = "malformed" -> "YAMLException"
      [] OTHER -> "none"

\* yaml.load(text) || {}
Loaded(file) == IF file.kind = "mapping" THEN file.doc ELSE EmptyObject

cliEsCredentials(e) ==
    pickBy([k \in {"elasticsearch.username", "elasticsearch.password",
                   "elasticsearch.hosts"} |->
              CASE k = "elasticsearch.username" -> e.ELASTICSEARCH_USERNAME
                [] k = "elasticsearch.password" -> e.ELASTICSEARCH_PASSWORD
                [] k = "elasticsearch.hosts" -> e.ELASTICSEARCH_HOST])

\* The returned object literal: defaults, then the loaded file, then the
\* environment.
MergedEnvFirst(loaded, creds) == Spread(Spread(Defaults, creds), loaded)
MergedDefaultsLast(loaded, creds) == Spread(Spread(loaded, creds), Defaults)
Merged(loaded, creds) == Spread(Spread(Defaults, loaded), creds)

NotCalled == [status |-> "init", path |-> "none", error |-> "none", value |-> EmptyObject]

readKibanaConfig(dev, prod, e) ==
    LET path == ConfigPath(dev)
        file == FileAt(path, dev, prod)
        err == LoadError(file)
    IN IF err # "none"
       THEN [status |-> "threw", path |-> path, error |-> err, value |-> EmptyObject]
       ELSE [status |-> "returned", path |-> path, error |-> "none",
             value |-> Merged(Loaded(file), cliEsCredentials(e))]

InitConfig ==
    /\ devFile \in FileStates(DevValue)
    /\ prodFile \in FileStates(ProdValue)
    /\ env \in EnvStates
    /\ cfgOut = NotCalled

IdleConfig ==
    /\ devFile = [kind |-> "absent", doc |-> EmptyObject]
    /\ prodFile = [kind |-> "absent", doc |-> EmptyObject]
    /\ env = [ELASTICSEARCH_USERNAME |-> undefined, ELASTICSEARCH_PASSWORD |-> undefined,
              ELASTICSEARCH_HOST |-> undefined]
    /\ cfgOut = NotCalled

CallReadKibanaConfig ==
    /\ cfgOut.status = "init"
    /\ cfgOut' = readKibanaConfig(devFile, prodFile, env)
    /\ UNCHANGED <<devFile, prodFile, env, themeVars, chartVars>>

(***************************************************************************)
(*                             useIsDarkTheme                              *)
(***************************************************************************)

MaxThemeChanges == 3

themeDefault == [darkMode |-> FALSE, name |-> undefined]

\* CoreTheme values a theme service can apply.
CoreThemes == [darkMode : BOOLEAN, name : {"amsterdam", "borealis"}]

\* The `theme` argument: no service, a service whose theme$ replays its
\* current value to a new subscriber (the core theme service), or a service
\* whose theme$ only notifies of later changes (a bare Subject).
ThemeServices == {"absent", "replaying", "plain"}

\* useMemo(() => theme?.theme$ ?? of(themeDefault), [theme])
themeObservable(service) == IF service = "absent" THEN "of(themeDefault)" ELSE "theme$"

\* What a new subscription to the observable receives synchronously:
\* a sequence of zero or one notifications.
OnSubscribe(service, applied) ==
    CASE themeObservable(service) = "of(themeDefault)" -> <<themeDefault>>
      [] service = "replaying" -> <<applied>>
      [] OTHER -> <<>>

\* const { darkMode } = useObservable(themeObservable$, themeDefault); return darkMode
useIsDarkThemeIgnoresState(state) == themeDefault.darkMode
useIsDarkTheme(state) == state.darkMode

InitTheme ==
    /\ themeService \in ThemeServices
    /\ appliedTheme \in CoreThemes
    /\ hookState = themeDefault
    /\ themePc = "unmounted"
    /\ themeRenderPending = FALSE
    /\ returned = undefined
    /\ delivered = 0
    /\ themeChanges = 0

IdleTheme ==
    /\ themeService = "absent"
    /\ appliedTheme = [darkMode |-> FALSE, name |-> "amsterdam"]
    /\ hookState = themeDefault
    /\ themePc = "unmounted"
    /\ themeRenderPending = FALSE
    /\ returned = undefined
    /\ delivered = 0
    /\ themeChanges = 0

\* First render: useState(initialValue) holds themeDefault; the layout effect
\* that subscribes has not run yet.
MountHook ==
    /\ themePc = "unmounted"
    /\ hookState' = themeDefault
    /\ returned' = IF useIsDarkTheme(hookState') THEN "true" ELSE "false"
    /\ themePc' = "rendered"
    /\ UNCHANGED <<themeService, appliedTheme, themeRenderPending, delivered,
                   themeChanges, cfgVars, chartVars>>

\* useObservable's layout effect: observable$.subscribe(update).  update is
\* a useState setter: handed the object the state already holds (of(themeDefault)
\* delivers themeDefault itself) it schedules no re-render.
SubscribeEffect ==
    /\ themePc = "rendered"
    /\ themePc' = "subscribed"
    /\ LET first == OnSubscribe(themeService, appliedTheme)
       IN IF Len(first) > 0
          THEN /\ hookState' = first[1]
               /\ delivered' = delivered + 1
               /\ themeRenderPending' = (first[1] # hookState)
          ELSE UNCHANGED <<hookState, delivered, themeRenderPending>>
    /\ UNCHANGED <<themeService, appliedTheme, returned, themeChanges,
                   cfgVars, chartVars>>

\* The theme service applies another theme; theme$ notifies its subscribers.
ThemeChange ==
    /\ themeService # "absent"
    /\ themePc # "gone"
    /\ themeChanges < MaxThemeChanges
    /\ \E t \in CoreThemes \ {appliedTheme} :
          /\ appliedTheme' = t
          /\ IF themePc = "subscribed"
             THEN /\ hookState' = t
                  /\ delivered' = delivered + 1
                  /\ themeRenderPending' = TRUE
             ELSE UNCHANGED <<hookState, delivered, themeRenderPending>>
    /\ themeChanges' = themeChanges + 1
    /\ UNCHANGED <<themeService, themePc, returned, cfgVars, chartVars>>

\* A re-render of the hook (scheduled by update, or by the parent).
RenderHook ==
    /\ themePc = "subscribed"
    /\ returned' = IF useIsDarkTheme(hookState) THEN "true" ELSE "false"
    /\ themeRenderPending' = FALSE
    /\ UNCHANGED <<themeService, appliedTheme, hookState, themePc, delivered,
                   themeChanges, cfgVars, chartVars>>

\* Unmount: the effect's cleanup unsubscribes.
UnmountHook ==
    /\ themePc = "subscribed"
    /\ themePc' = "gone"
    /\ themeRenderPending' = FALSE
    /\ UNCHANGED <<themeService, appliedTheme, hookState, returned, delivered,
                   themeChanges, cfgVars, chartVars>>

(***************************************************************************)
(*                                  Chart                                  *)
(***************************************************************************)

\* The props the render reads that decide what is shown.  chart is the
\* UnifiedHistogramChartContext: undefined, { hidden: true } or { hidden: false };
\* isPlainRecord absent is FALSE; renderCustomChartToggleActions and
\* onEditVisualization (the result of useEditVisualization) are TRUE when defined;
\* showWriteControls is services.capabilities.dashboard?.showWriteControls.
PropsSpace ==
    [isChartAvailable : BOOLEAN,
     chart : {undefined, "hidden", "shown"},
     isPlainRecord : BOOLEAN,
     renderCustomChartToggleActions : BOOLEAN,
     showWriteControls : BOOLEAN,
     onEditVisualization : BOOLEAN]

\* Values of lensVisService.visContext$: undefined, a context without
\* attributes, a context with attributes.
VisContexts == {undefined, "noAttributes", "withAttributes"}

\* Values of lensVisService.currentSuggestionContext$: undefined, or
\* { suggestion, type } with suggestion possibly undefined.
NoSuggestionContext == [type |-> undefined, suggestion |-> FALSE]
SuggestionContexts ==
    {NoSuggestionContext}
    \cup [type : {"lensSuggestion", "histogramForESQL", "histogramForDataView"},
          suggestion : BOOLEAN]

\* isChartAvailable && !!chart && !chart.hidden && !!visContext && !!visContext?.attributes
chartVisible(p, vc) ==
    /\ p.isChartAvailable
    /\ p.chart # undefined
    /\ p.chart # "hidden"
    /\ vc # undefined
    /\ vc = "withAttributes"

\* isPlainRecord && currentSuggestion && [lensSuggestion, histogramForESQL].includes(type)
canCustomizeVisualization(p, sc) ==
    /\ p.isPlainRecord
    /\ sc.suggestion
    /\ sc.type \in {"lensSuggestion", "histogramForESQL"}

canEditVisualizationOnTheFlyIgnoringVisibility(p, vc, sc) ==
    canCustomizeVisualization(p, sc)
canEditVisualizationOnTheFly(p, vc, sc) ==
    canCustomizeVisualization(p, sc) /\ chartVisible(p, vc)

canSaveVisualization(p, vc, sc) ==
    canEditVisualizationOnTheFly(p, vc, sc) /\ p.showWriteControls

\* The buttons pushed to `actions`, by their data-test-subj.
actionsWithIndependentEditButtons(p, vc, sc) ==
    (IF canEditVisualizationOnTheFly(p, vc, sc)
       THEN <<"unifiedHistogramEditFlyoutVisualization">>
       ELSE <<>>)
    \o (IF p.onEditVisualization
          THEN <<"unifiedHistogramEditVisualization">>
          ELSE <<>>)
    \o (IF canSaveVisualization(p, vc, sc)
          THEN <<"unifiedHistogramSaveVisualization">>
          ELSE <<>>)
actions(p, vc, sc) ==
    (IF canEditVisualizationOnTheFly(p, vc, sc)
       THEN <<"unifiedHistogramEditFlyoutVisualization">>
       ELSE IF p.onEditVisualization
              THEN <<"unifiedHistogramEditVisualization">>
              ELSE <<>>)
    \o (IF canSaveVisualization(p, vc, sc)
          THEN <<"unifiedHistogramSaveVisualization">>
          ELSE <<>>)

\* Boolean(renderCustomChartToggleActions) && !chartVisible: the early return.
panelHidden(p, vc) == p.renderCustomChartToggleActions /\ ~chartVisible(p, vc)

\* chartVisible && actions.length > 0
actionsGroupWheneverVisible(p, vc, sc) == ~panelHidden(p, vc) /\ chartVisible(p, vc)
actionsGroup(p, vc, sc) ==
    /\ ~panelHidden(p, vc)
    /\ chartVisible(p, vc)
    /\ Len(actions(p, vc, sc)) > 0

\* canSaveVisualization && isSaveModalVisible && visContext.attributes:
\* the member access is evaluated when the first two operands are truthy.
attributesRead(p, vc, sc, save) ==
    ~panelHidden(p, vc) /\ canSaveVisualization(p, vc, sc) /\ save

saveModal(p, vc, sc, save) ==
    attributesRead(p, vc, sc, save) /\ vc = "withAttributes"

\* isFlyoutVisible && !!visContext && !!lensVisServiceCurrentSuggestionContext
configPanel(p, vc, sc, fly) ==
    /\ ~panelHidden(p, vc)
    /\ fly
    /\ vc # undefined
    /\ sc # NoSuggestionContext

\* One evaluation of the function component.
RenderChart(p, vc, sc, save, fly) ==
    [chartVisible |-> chartVisible(p, vc),
     isFlyoutVisible |-> fly,
     isSaveModalVisible |-> save,
     panelHidden |-> panelHidden(p, vc),
     actions |-> IF panelHidden(p, vc) THEN <<>> ELSE actions(p, vc, sc),
     actionsGroup |-> actionsGroup(p, vc, sc),
     typeError |-> attributesRead(p, vc, sc, save) /\ vc = undefined,
     saveModal |-> saveModal(p, vc, sc, save),
     configPanel |-> configPanel(p, vc, sc, fly)]

NotRendered ==
    [chartVisible |-> FALSE, isFlyoutVisible |-> FALSE, isSaveModalVisible |-> FALSE,
     panelHidden |-> FALSE, actions |-> <<>>, actionsGroup |-> FALSE,
     typeError |-> FALSE, saveModal |-> FALSE, configPanel |-> FALSE]

Contains(seq, x) == \E i \in 1..Len(seq) : seq[i] = x

\* The dependency array [chartVisible, isFlyoutVisible] of a render.
Deps(o) == <<o.chartVisible, o.isFlyoutVisible>>

InitChart ==
    /\ props \in PropsSpace
    /\ visContext = undefined
    /\ suggestionContext = NoSuggestionContext
    /\ isSaveModalVisible = FALSE
    /\ isFlyoutVisible = FALSE
    /\ chartMounted = FALSE
    /\ renderPending = FALSE
    /\ effectPending = FALSE
    /\ lastDeps = <<>>
    /\ out = NotRendered

IdleChart ==
    /\ props = [isChartAvailable |-> FALSE, chart |-> undefined, isPlainRecord |-> FALSE,
                renderCustomChartToggleActions |-> FALSE, showWriteControls |-> FALSE,
                onEditVisualization |-> FALSE]
    /\ visContext = undefined
    /\ suggestionContext = NoSuggestionContext
    /\ isSaveModalVisible = FALSE
    /\ isFlyoutVisible = FALSE
    /\ chartMounted = FALSE
    /\ renderPending = FALSE
    /\ effectPending = FALSE
    /\ lastDeps = <<>>
    /\ out = NotRendered

\* Commit of a render with props p: the output replaces the previous one and
\* the effect is scheduled when its dependencies changed (always on mount).
Commit(p) ==
    LET o == RenderChart(p, visContext, suggestionContext, isSaveModalVisible,
                         isFlyoutVisible)
    IN /\ out' = o
       /\ props' = p
       /\ chartMounted' = TRUE
       /\ renderPending' = FALSE
       /\ effectPending' = (Deps(o) # lastDeps)
       /\ lastDeps' = Deps(o)
       /\ UNCHANGED <<visContext, suggestionContext, isSaveModalVisible,
                      isFlyoutVisible, cfgVars, themeVars>>

\* The first render, with the props the host mounts the panel with.
MountChart ==
    /\ ~chartMounted
    /\ Commit(props)

\* The host renders the panel again with other props.  Effects of the
\* previous commit are flushed before a new render starts.
HostRender ==
    /\ chartMounted
    /\ ~effectPending
    /\ \E p \in PropsSpace \ {props} : Commit(p)

\* A re-render scheduled by a state update.
Render ==
    /\ chartMounted
    /\ renderPending
    /\ ~effectPending
    /\ Commit(props)

\* useEffect(() => { if (!chartVisible && isFlyoutVisible) setIsFlyoutVisible(false) })
\* with the values the committed render closed over.
EffectClosesFlyoutNever(o) == FALSE
EffectClosesFlyout(o) == ~o.chartVisible /\ o.isFlyoutVisible

RunEffect ==
    /\ effectPending
    /\ effectPending' = FALSE
    /\ IF EffectClosesFlyout(out)
       THEN /\ isFlyoutVisible' = FALSE
            /\ renderPending' = (renderPending \/ isFlyoutVisible)
       ELSE UNCHANGED <<isFlyoutVisible, renderPending>>
    /\ UNCHANGED <<props, visContext, suggestionContext, isSaveModalVisible,
                   chartMounted, lastDeps, out, cfgVars, themeVars>>

\* lensVisService.visContext$ notifies: useObservable stores the value.
VisContextEmit ==
    /\ chartMounted
    /\ \E vc \in VisContexts \ {visContext} : visContext' = vc
    /\ renderPending' = TRUE
    /\ UNCHANGED <<props, suggestionContext, isSaveModalVisible, isFlyoutVisible,
                   chartMounted, effectPending, lastDeps, out, cfgVars, themeVars>>

\* lensVisService.currentSuggestionContext$ notifies.
SuggestionContextEmit ==
    /\ chartMounted
    /\ \E sc \in SuggestionContexts \ {suggestionContext} : suggestionContext' = sc
    /\ renderPending' = TRUE
    /\ UNCHANGED <<props, visContext, isSaveModalVisible, isFlyoutVisible,
                   chartMounted, effectPending, lastDeps, out, cfgVars, themeVars>>

\* Click on the on-the-fly Edit button (disabled while the flyout is open).
ClickEditFlyout ==
    /\ out.actionsGroup
    /\ Contains(out.actions, "unifiedHistogramEditFlyoutVisualization")
    /\ ~out.isFlyoutVisible
    /\ isFlyoutVisible' = TRUE
    /\ renderPending' = (renderPending \/ ~isFlyoutVisible)
    /\ UNCHANGED <<props, visContext, suggestionContext, isSaveModalVisible,
                   chartMounted, effectPending, lastDeps, out, cfgVars, themeVars>>

\* Click on the Save button.
ClickSave ==
    /\ out.actionsGroup
    /\ Contains(out.actions, "unifiedHistogramSaveVisualization")
    /\ isSaveModalVisible' = TRUE
    /\ renderPending' = (renderPending \/ ~isSaveModalVisible)
    /\ UNCHANGED <<props, visContext, suggestionContext, isFlyoutVisible,
                   chartMounted, effectPending, lastDeps, out, cfgVars, themeVars>>

\* LensSaveModalComponent's onClose.
CloseSaveModal ==
    /\ out.saveModal
    /\ isSaveModalVisible' = FALSE
    /\ renderPending' = (renderPending \/ isSaveModalVisible)
    /\ UNCHANGED <<props, visContext, suggestionContext, isFlyoutVisible,
                   chartMounted, effectPending, lastDeps, out, cfgVars, themeVars>>

\* ChartConfigPanel closes the flyout through the setter it is handed.
CloseFlyout ==
    /\ out.configPanel
    /\ isFlyoutVisible' = FALSE
    /\ renderPending' = (renderPending \/ isFlyoutVisible)
    /\ UNCHANGED <<props, visContext, suggestionContext, isSaveModalVisible,
                   chartMounted, effectPending, lastDeps, out, cfgVars, themeVars>>

(***************************************************************************)
(*                             Specifications                              *)
(***************************************************************************)

NextConfig == CallReadKibanaConfig

ConfigInit == InitConfig /\ IdleTheme /\ IdleChart
SpecConfig == ConfigInit /\ [][NextConfig]_vars

NextTheme ==
    \/ MountHook
    \/ SubscribeEffect
    \/ ThemeChange
    \/ RenderHook
    \/ UnmountHook

ThemeInit == IdleConfig /\ InitTheme /\ IdleChart
SpecTheme == ThemeInit /\ [][NextTheme]_vars

NextChart ==
    \/ MountChart
    \/ HostRender
    \/ Render
    \/ RunEffect
    \/ VisContextEmit
    \/ SuggestionContextEmit
    \/ ClickEditFlyout
    \/ ClickSave
    \/ CloseSaveModal
    \/ CloseFlyout

ChartInit == IdleConfig /\ IdleTheme /\ InitChart
SpecChart == ChartInit /\ [][NextChart]_vars

\* React runs every scheduled render and every scheduled effect.
SpecChartFair ==
    /\ ChartInit
    /\ [][NextChart]_vars
    /\ WF_vars(Render)
    /\ WF_vars(RunEffect)

(***************************************************************************)
(*                      Properties: readKibanaConfig                       *)
(***************************************************************************)

\* The file the loader is expected to read, stated from the disk alone.
ExpectedFile == IF devFile.kind # "absent" THEN devFile ELSE prodFile

\* The environment variable that can override key k (undefined when none).
EnvVarOf(k) ==
    CASE k = "elasticsearch.username" -> env.ELASTICSEARCH_USERNAME
      [] k = "elasticsearch.password" -> env.ELASTICSEARCH_PASSWORD
      [] k = "elasticsearch.hosts" -> env.ELASTICSEARCH_HOST
      [] OTHER -> undefined

EnvSupplies(k) == EnvVarOf(k) # undefined /\ EnvVarOf(k) # ""

EnvKeys == {"elasticsearch.username", "elasticsearch.password", "elasticsearch.hosts"}

\* C1: readKibanaConfig loads exactly one YAML file.  When kibana.dev.yml
\* exists the result carries the dev file's values (for every key the
\* environment does not override) and no value of kibana.yml, not even for
\* keys the dev file lacks; when it does not exist the result carries the
\* values of kibana.yml.
C1_LoadsExactlyOneFile ==
    cfgOut.status = "returned" =>
        /\ cfgOut.path = (IF devFile.kind # "absent" THEN kibanaDevConfig ELSE kibanaConfig)
        /\ \A k \in DOMAIN ExpectedFile.doc :
              ~EnvSupplies(k) => (k \in DOMAIN cfgOut.value /\ cfgOut.value[k] = ExpectedFile.doc[k])
        /\ \A k \in DOMAIN cfgOut.value :
              /\ (devFile.kind # "absent" => cfgOut.value[k] # ProdValue)
              /\ (devFile.kind = "absent" => cfgOut.value[k] # DevValue)
        /\ \A k \in FileKeys \ (DOMAIN ExpectedFile.doc \cup DOMAIN Defaults \cup EnvKeys) :
              k \notin DOMAIN cfgOut.value

\* Both files are mappings, kibana.yml sets server.port and hosts, the dev
\* file sets neither, and the call has returned.
C1_Witness ==
    /\ cfgOut.status = "returned"
    /\ devFile.kind = "mapping"
    /\ prodFile.kind = "mapping"
    /\ {"server.port", "elasticsearch.hosts"} \subseteq DOMAIN prodFile.doc
    /\ DOMAIN devFile.doc = {"elasticsearch.username"}
    /\ cfgOut.value["elasticsearch.username"] = DevValue

\* C2 as stated: whenever one of the three environment variables is set
\* (to any string, the empty one included), the result holds its value under
\* the matching key.
C2_SetEnvOverrides ==
    cfgOut.status = "returned" =>
        \A k \in EnvKeys :
            EnvVarOf(k) # undefined =>
                (k \in DOMAIN cfgOut.value /\ cfgOut.value[k] = EnvVarOf(k))

\* C2 amended: whenever one of the three environment variables is set to a
\* non-empty value, the result holds that value under the matching key,
\* whatever the loaded file or the default gives; a variable set to the
\* empty string is ignored like an unset one.
C2_NonEmptyEnvOverrides ==
    cfgOut.status = "returned" =>
        \A k \in EnvKeys :
            /\ EnvSupplies(k) =>
                  (k \in DOMAIN cfgOut.value /\ cfgOut.value[k] = EnvVarOf(k))
            /\ EnvVarOf(k) = "" =>
                  /\ k \in DOMAIN cfgOut.value => cfgOut.value[k] # ""
                  /\ k \in DOMAIN ExpectedFile.doc =>
                        cfgOut.value[k] = ExpectedFile.doc[k]

\* ELASTICSEARCH_HOST and ELASTICSEARCH_USERNAME are set, the loaded file
\* gives both keys, and the call has returned.
C2_Witness ==
    /\ cfgOut.status = "returned"
    /\ env.ELASTICSEARCH_HOST = "http://env-host:9200"
    /\ env.ELASTICSEARCH_USERNAME = "env-user"
    /\ {"elasticsearch.hosts", "elasticsearch.username"} \subseteq DOMAIN ExpectedFile.doc
    /\ cfgOut.value["elasticsearch.hosts"] = "http://env-host:9200"

\* C5: a missing kibana.dev.yml is no error by itself: kibana.yml is read
\* instead and, when it loads, the call returns.  A malformed document in
\* the file that is read makes the call throw the parse error, with no
\* mapping returned and no fallback to the other file or to the defaults.
C5_ErrorOutcomes ==
    cfgOut.status # "init" =>
        /\ devFile.kind = "absent" =>
              /\ cfgOut.path = kibanaConfig
              /\ prodFile.kind \in {"empty", "mapping"} => cfgOut.status = "returned"
        /\ ExpectedFile.kind = "malformed" =>
              /\ cfgOut.status = "threw"
              /\ cfgOut.error = "YAMLException"
              /\ cfgOut.value = EmptyObject
              /\ cfgOut.path = (IF devFile.kind # "absent" THEN kibanaDevConfig
                                                          ELSE kibanaConfig)

\* The dev file exists and is malformed while kibana.yml is a fine mapping:
\* the call threw.
C5_Witness ==
    /\ cfgOut.status = "threw"
    /\ devFile.kind = "malformed"
    /\ prodFile.kind = "mapping"
    /\ DOMAIN prodFile.doc # {}

\* C6: a returned mapping always has the six defaulted keys, and each key's
\* value follows default < loaded YAML < non-empty environment variable; a
\* defaulted key keeps its default exactly when neither the loaded file (an
\* empty file counting as an empty mapping) nor a non-empty environment
\* variable supplies it.
C6_DefaultsAndPrecedence ==
    cfgOut.status = "returned" =>
        /\ DOMAIN Defaults \subseteq DOMAIN cfgOut.value
        /\ DOMAIN cfgOut.value =
              DOMAIN Defaults \cup DOMAIN ExpectedFile.doc \cup {k \in EnvKeys : EnvSupplies(k)}
        /\ \A k \in DOMAIN cfgOut.value :
              cfgOut.value[k] =
                  IF EnvSupplies(k) THEN EnvVarOf(k)
                  ELSE IF k \in DOMAIN ExpectedFile.doc THEN ExpectedFile.doc[k]
                  ELSE Defaults[k]
        /\ \A k \in DOMAIN Defaults :
              (cfgOut.value[k] = Defaults[k]) <=>
                  (k \notin DOMAIN ExpectedFile.doc /\ ~EnvSupplies(k))

\* An empty file was loaded with ELASTICSEARCH_HOST set to the empty string:
\* every defaulted key keeps its default.
C6_Witness ==
    /\ cfgOut.status = "returned"
    /\ ExpectedFile.kind = "empty"
    /\ env.ELASTICSEARCH_HOST = ""
    /\ \A k \in DOMAIN Defaults : cfgOut.value[k] = Defaults[k]

(***************************************************************************)
(*                       Properties: useIsDarkTheme                        *)
(***************************************************************************)

BoolString(b) == IF b THEN "true" ELSE "false"

\* The theme most recently emitted by the observable the hook subscribed to.
LastEmitted == IF themeService = "absent" THEN themeDefault ELSE appliedTheme

\* C4: every render that happens before the stream has delivered a
\* notification returns the default light value (false); once notifications
\* have been delivered, the render that follows the latest one returns the
\* darkMode flag of the most recently emitted theme.
C4_DefaultThenLatestEmission ==
    /\ (returned # undefined /\ delivered = 0) => returned = "false"
    /\ (themePc = "subscribed" /\ delivered > 0 /\ ~themeRenderPending) =>
          returned = BoolString(LastEmitted.darkMode)

\* The subscription has delivered the replayed theme and a later change to a
\* dark theme, and the hook has rendered again: it returns true.
C4_Witness ==
    /\ themePc = "subscribed"
    /\ delivered >= 2
    /\ ~themeRenderPending
    /\ appliedTheme.darkMode
    /\ returned = "true"

\* C7: on every render, the first one after mounting included, the hook
\* returns the darkMode flag of the theme currently applied (for a theme
\* service whose theme$ carries the current theme), and false when no theme
\* service is supplied.
C7_ReturnsAppliedThemeOnEveryRender ==
    (themePc \in {"rendered", "subscribed"} /\ themeService # "plain"
        /\ ~themeRenderPending) =>
        returned = BoolString(themeService = "replaying" /\ appliedTheme.darkMode)

(***************************************************************************)
(*                           Properties: Chart                             *)
(***************************************************************************)

\* No render and no effect is outstanding: the output on screen is the one
\* of the current props, observable values and state.
Settled == chartMounted /\ ~renderPending /\ ~effectPending

\* The inputs allow customizing the visualization (ES|QL mode with a current
\* suggestion of a supported type), stated from the inputs alone.
InputsAllowCustomizing ==
    /\ props.isPlainRecord
    /\ suggestionContext # NoSuggestionContext
    /\ suggestionContext.suggestion
    /\ suggestionContext.type \in {"lensSuggestion", "histogramForESQL"}

\* The inputs make the chart visible, stated from the inputs alone.
InputsMakeChartVisible ==
    /\ props.isChartAvailable
    /\ props.chart = "shown"
    /\ visContext = "withAttributes"

\* C3 as stated: in every render the 'Chart actions' group is absent
\* whenever chartVisible is false and present whenever chartVisible is true.
C3_ActionsGroupIffChartVisible ==
    chartMounted => (out.actionsGroup <=> out.chartVisible)

\* C3 amended: in every render the 'Chart actions' group is absent whenever
\* chartVisible is false, and when chartVisible is true it is present exactly
\* when there is at least one action to show (the on-the-fly Edit button, or
\* the open-in-Lens Edit button when onEditVisualization is defined).
C3_ActionsGroupIffVisibleAndNonEmpty ==
    chartMounted =>
        /\ ~out.chartVisible => ~out.actionsGroup
        /\ out.actionsGroup <=> (out.chartVisible /\ Len(out.actions) > 0)
        /\ ~renderPending =>
              /\ out.chartVisible <=> InputsMakeChartVisible
              /\ out.actionsGroup <=>
                    /\ InputsMakeChartVisible
                    /\ InputsAllowCustomizing \/ props.onEditVisualization

\* A render with the chart visible, in data-view mode, with no
\* onEditVisualization: no action exists and the group is not rendered.
C3_Witness ==
    /\ chartMounted
    /\ ~renderPending
    /\ out.chartVisible
    /\ ~props.isPlainRecord
    /\ ~props.onEditVisualization
    /\ ~out.actionsGroup

\* A committed render saw the flyout open while the chart was not visible.
FlyoutOpenWithoutChart == chartMounted /\ out.isFlyoutVisible /\ ~out.chartVisible

\* C8: after any render in which isFlyoutVisible is true and chartVisible is
\* false the effect eventually sets isFlyoutVisible to false; in every
\* settled state isFlyoutVisible implies chartVisible; and isFlyoutVisible
\* turns true only by a click on the on-the-fly Edit button, never by
\* chartVisible becoming true again.
C8_FlyoutAutoClose ==
    /\ FlyoutOpenWithoutChart ~> ~isFlyoutVisible
    /\ [](Settled => (isFlyoutVisible => (out.chartVisible /\ InputsMakeChartVisible)))
    /\ [][(~isFlyoutVisible /\ isFlyoutVisible') => ClickEditFlyout]_vars

\* The effect has run after a render that saw the flyout open without a
\* visible chart: the state is closed, the re-render is still to come.
C8_Witness ==
    /\ FlyoutOpenWithoutChart
    /\ ~effectPending
    /\ ~isFlyoutVisible
    /\ renderPending

\* C9: whenever the panel is in data-view mode (isPlainRecord false or
\* absent) and has settled, isFlyoutVisible is false and ChartConfigPanel is
\* not rendered, also after a switch from ES|QL mode while the flyout was
\* open and the chart stays visible.
C9_FlyoutClosedInDataViewMode ==
    (Settled /\ ~props.isPlainRecord) => (~isFlyoutVisible /\ ~out.configPanel)

\* C10: the save modal is rendered only when isSaveModalVisible,
\* chartVisible and isPlainRecord are true, a current suggestion of type
\* lensSuggestion or histogramForESQL exists, showWriteControls is truthy and
\* visContext.attributes is present; and no render evaluates
\* visContext.attributes of the save-modal condition while visContext is
\* undefined.
C10_SaveModalGuarded ==
    chartMounted =>
        /\ ~out.typeError
        /\ out.saveModal => (out.isSaveModalVisible /\ out.chartVisible)
        /\ (~renderPending /\ out.saveModal) =>
              /\ isSaveModalVisible
              /\ InputsMakeChartVisible
              /\ InputsAllowCustomizing
              /\ props.showWriteControls

\* A render with the save modal requested and every other condition of the
\* modal met, while visContext is undefined: nothing is read from it.
C10_Witness ==
    /\ chartMounted
    /\ ~renderPending
    /\ out.isSaveModalVisible
    /\ visContext = undefined
    /\ InputsAllowCustomizing
    /\ props.showWriteControls
    /\ props.isChartAvailable
    /\ props.chart = "shown"
    /\ ~props.renderCustomChartToggleActions
    /\ ~out.saveModal

\* Number of entries of the actions list with the given data-test-subj.
Occurrences(seq, x) == Cardinality({i \in 1..Len(seq) : seq[i] = x})

EditButtons(seq) ==
    Occurrences(seq, "unifiedHistogramEditFlyoutVisualization")
    + Occurrences(seq, "unifiedHistogramEditVisualization")

\* C11: in every render that builds the actions list, the list holds at most
\* one Edit button: the on-the-fly one exactly when canEditVisualizationOnTheFly
\* holds, otherwise the open-in-Lens one exactly when onEditVisualization is
\* defined; it holds the Save button exactly when canSaveVisualization holds,
\* so Save never appears without the on-the-fly Edit button nor when
\* showWriteControls is falsy.
C11_ActionsComposition ==
    (chartMounted /\ ~out.panelHidden) =>
        /\ EditButtons(out.actions) <= 1
        /\ Occurrences(out.actions, "unifiedHistogramSaveVisualization") <= 1
        /\ Contains(out.actions, "unifiedHistogramEditVisualization") <=>
              /\ ~Contains(out.actions, "unifiedHistogramEditFlyoutVisualization")
              /\ props.onEditVisualization
        /\ Contains(out.actions, "unifiedHistogramSaveVisualization") <=>
              /\ Contains(out.actions, "unifiedHistogramEditFlyoutVisualization")
              /\ props.showWriteControls
        /\ ~renderPending =>
              /\ Contains(out.actions, "unifiedHistogramEditFlyoutVisualization") <=>
                    (InputsAllowCustomizing /\ InputsMakeChartVisible)
              /\ Contains(out.actions, "unifiedHistogramSaveVisualization") <=>
                    (InputsAllowCustomizing /\ InputsMakeChartVisible
                        /\ props.showWriteControls)

\* A render with on-the-fly editing and saving possible while
\* onEditVisualization is defined too: the list is the on-the-fly Edit button
\* followed by the Save button, without the open-in-Lens one.
C11_Witness ==
    /\ chartMounted
    /\ ~renderPending
    /\ props.onEditVisualization
    /\ out.actions = <<"unifiedHistogramEditFlyoutVisualization",
                       "unifiedHistogramSaveVisualization">>

====
